---- MODULE Spec2Model ----
(***************************************************************************)
(* Model of the icinga_api Ansible module (icinga_api.py).                 *)
(*                                                                         *)
(* One invocation of the module is one run of main(): it sets its two      *)
(* locals, builds argument_spec, hands it to AnsibleModule (which loads    *)
(* the task's parameters, applies aliases, defaults, the required check,   *)
(* the type conversions and the choices check, and ends the run through    *)
(* fail_json when a check fails) and finally calls exit_json.              *)
(*                                                                         *)
(* AnsibleModule and url_argument_spec are library code; they are modelled *)
(* by their documented contract for option descriptions.  The entries of   *)
(* argument_spec that are not option descriptions (lines 283-287) take no  *)
(* part in validation.                                                     *)
(*                                                                         *)
(* The remote API is the environment: `answer` is the HTTP status it would *)
(* give to a request of the current invocation.                            *)
(***************************************************************************)
EXTENDS Integers, Sequences, FiniteSets, TLC

VARIABLES
    pc,             \* position of main(): "idle", "main", "spec", "validated", "exited"
    raw,            \* the parameters the task supplies to this invocation
    changed,        \* main's local `changed`
    failed,         \* main's local `failed`
    argument_spec,  \* main's local `argument_spec`
    params,         \* module.params
    out,            \* the outcomes this invocation has emitted, in order
    httpCalls,      \* HTTP requests this invocation has issued
    answer,         \* status the remote API would answer to this invocation
    run,            \* invocations started so far
    repeated        \* TRUE when this invocation repeats the previous one's parameters

vars == <<pc, raw, changed, failed, argument_spec, params, out, httpCalls, answer, run, repeated>>

----------------------------------------------------------------------------
(* Bounds *)

\* number of invocations in one behaviour
MaxRuns == 2

\* how many of the plain optional parameters (port, user, password, headers,
\* validate_certs, object_name) one task supplies
MaxExtras == 1

----------------------------------------------------------------------------
(* Values *)

None == <<>>
Some(v) == <<v>>
IsSet(o) == o # None
Val(o) == o[1]

\* dictionaries are sets of <<key, value>> pairs
EmptyDict == {}
ZoneDefinition == {<<"templates", "generic-zone">>, <<"attrs.endpoints", "master">>}
CustomHeaders == {<<"Accept", "application/json">>}

\* decimal strings are sequences of digits
Str5665 == <<5, 6, 6, 5>>
Str443 == <<4, 4, 3>>

RECURSIVE ToInt(_)
ToInt(s) == IF s = <<>> THEN 0 ELSE 10 * ToInt(SubSeq(s, 1, Len(s) - 1)) + s[Len(s)]

BOOLEANS_TRUE == {"yes", "on", "1", "true"}
ToBool(s) == s \in BOOLEANS_TRUE

OptionNames == {"url", "port", "url_username", "url_password", "endpoint",
                "object_family", "object_name", "state", "headers",
                "validate_certs", "cascade_delete", "definition"}

StrayNames == {"mutually_exclusive", "check_invalid_arguments", "supports_check_mode"}

Families == {"zones", "hostgroups", "hosts", "servicegroups", "services"}

\* the names a task uses for the parameters
RawNames == (OptionNames \ {"url_username", "url_password"}) \cup {"user", "password"}

\* the plain optional parameters
ExtraNames == {"port", "user", "password", "headers", "validate_certs", "object_name"}

\* the values a task may give to each parameter (unsupplied is None)
RawValues(k) ==
    CASE k = "url"            -> {Some("icinga.example.com")}
      [] k = "port"           -> {Some(Str443)}
      [] k = "user"           -> {Some("admin")}
      [] k = "password"       -> {Some("secret")}
      [] k = "endpoint"       -> {Some("objects"), Some("status"), Some("bogus")}
      [] k = "object_family"  -> {Some("zones"), Some("bogus")}
      [] k = "object_name"    -> {Some("checker")}
      [] k = "state"          -> {Some("present"), Some("absent"), Some("bogus")}
      [] k = "headers"        -> {Some(CustomHeaders)}
      [] k = "validate_certs" -> {Some("false")}
      [] k = "cascade_delete" -> {Some("true"), Some("false")}
      [] k = "definition"     -> {Some(EmptyDict), Some(ZoneDefinition)}

ParamSets ==
    {p \in [url : RawValues("url") \cup {None},
            port : RawValues("port") \cup {None},
            user : RawValues("user") \cup {None},
            password : RawValues("password") \cup {None},
            endpoint : RawValues("endpoint") \cup {None},
            object_family : RawValues("object_family") \cup {None},
            object_name : RawValues("object_name") \cup {None},
            state : RawValues("state") \cup {None},
            headers : RawValues("headers") \cup {None},
            validate_certs : RawValues("validate_certs") \cup {None},
            cascade_delete : RawValues("cascade_delete") \cup {None},
            definition : RawValues("definition") \cup {None}] :
        Cardinality({k \in ExtraNames : IsSet(p[k])}) <= MaxExtras}

Unsupplied == [k \in RawNames |-> None]

\* statuses the remote API may answer
Statuses == {200, 404, 500}

----------------------------------------------------------------------------
(* main(): the argument specification, lines 219-287 *)

Entry(required, default, type, choices, aliases) ==
    [required |-> required, default |-> default, type |-> type,
     choices |-> choices, aliases |-> aliases]

\* variant: endpoint is not required
ParamEntryEndpointOptional(k) ==
    CASE k = "url"            -> Entry(TRUE, None, "str", {}, {})
      [] k = "port"           -> Entry(FALSE, Some(Str5665), "int", {}, {})
      [] k = "url_username"   -> Entry(FALSE, Some("root"), "raw", {}, {"user"})
      [] k = "url_password"   -> Entry(FALSE, Some("icinga"), "raw", {}, {"password"})
      [] k = "endpoint"       -> Entry(FALSE, None, "str", {"objects", "status"}, {})
      [] k = "object_family"  -> Entry(FALSE, None, "str", Families, {})
      [] k = "object_name"    -> Entry(FALSE, None, "str", {}, {"name"})
      [] k = "state"          -> Entry(FALSE, Some("present"), "str", {"present", "absent"}, {})
      [] k = "headers"        -> Entry(FALSE, Some(EmptyDict), "dict", {}, {})
      [] k = "cascade_delete" -> Entry(FALSE, Some("False"), "bool", {"true", "false"}, {})
      [] k = "definition"     -> Entry(FALSE, Some(EmptyDict), "dict", {}, {})

\* variant: state defaults to absent
ParamEntryStateAbsent(k) ==
    CASE k = "url"            -> Entry(TRUE, None, "str", {}, {})
      [] k = "port"           -> Entry(FALSE, Some(Str5665), "int", {}, {})
      [] k = "url_username"   -> Entry(FALSE, Some("root"), "raw", {}, {"user"})
      [] k = "url_password"   -> Entry(FALSE, Some("icinga"), "raw", {}, {"password"})
      [] k = "endpoint"       -> Entry(TRUE, None, "str", {"objects", "status"}, {})
      [] k = "object_family"  -> Entry(FALSE, None, "str", Families, {})
      [] k = "object_name"    -> Entry(FALSE, None, "str", {}, {"name"})
      [] k = "state"          -> Entry(FALSE, Some("absent"), "str", {"present", "absent"}, {})
      [] k = "headers"        -> Entry(FALSE, Some(EmptyDict), "dict", {}, {})
      [] k = "cascade_delete" -> Entry(FALSE, Some("False"), "bool", {"true", "false"}, {})
      [] k = "definition"     -> Entry(FALSE, Some(EmptyDict), "dict", {}, {})

\* the entries of the `params` dictionary of main
ParamEntry(k) ==
    CASE k = "url"            -> Entry(TRUE, None, "str", {}, {})
      [] k = "port"           -> Entry(FALSE, Some(Str5665), "int", {}, {})
      [] k = "url_username"   -> Entry(FALSE, Some("root"), "raw", {}, {"user"})
      [] k = "url_password"   -> Entry(FALSE, Some("icinga"), "raw", {}, {"password"})
      [] k = "endpoint"       -> Entry(TRUE, None, "str", {"objects", "status"}, {})
      [] k = "object_family"  -> Entry(FALSE, None, "str", Families, {})
      [] k = "object_name"    -> Entry(FALSE, None, "str", {}, {"name"})
      [] k = "state"          -> Entry(FALSE, Some("present"), "str", {"present", "absent"}, {})
      [] k = "headers"        -> Entry(FALSE, Some(EmptyDict), "dict", {}, {})
      [] k = "cascade_delete" -> Entry(FALSE, Some("False"), "bool", {"true", "false"}, {})
      [] k = "definition"     -> Entry(FALSE, Some(EmptyDict), "dict", {}, {})

\* the `params` dictionary of main
ParamsDict == [k \in OptionNames \ {"validate_certs"} |-> ParamEntry(k)]

\* url_argument_spec() of ansible.module_utils.urls
UrlArgumentSpec ==
    [k \in {"url", "url_username", "url_password", "validate_certs"} |->
        CASE k = "validate_certs" -> Entry(FALSE, Some("yes"), "bool", {}, {})
          [] OTHER                -> Entry(FALSE, None, "raw", {}, {})]

\* the dict(...) that main adds to argument_spec as further entries
StrayEntries ==
    [k \in StrayNames |->
        CASE k = "mutually_exclusive"      -> {"cascade_delete", "definition"}
          [] k = "check_invalid_arguments" -> FALSE
          [] k = "supports_check_mode"     -> TRUE]

\* dict.update
Update(d, e) == [k \in DOMAIN d \cup DOMAIN e |-> IF k \in DOMAIN e THEN e[k] ELSE d[k]]

BuiltArgumentSpec == Update(Update(UrlArgumentSpec, ParamsDict), StrayEntries)

\* the mutually_exclusive argument AnsibleModule is constructed with: main
\* passes argument_spec only
MutuallyExclusiveArg == {}

\* variant: the run is reported as a change
ExitChangedTrue == TRUE

\* changed= of the exit_json call
ExitChanged == FALSE

----------------------------------------------------------------------------
(* AnsibleModule(argument_spec=...): loading and validating the parameters *)

\* the entries of the specification that describe options
Options(spec) == DOMAIN spec \ StrayNames

\* aliases: a parameter given under an alias is stored under the option's name
HandleAliases(spec, p) ==
    [k \in Options(spec) |->
        IF k \in DOMAIN p /\ IsSet(p[k]) THEN p[k]
        ELSE IF \E a \in spec[k].aliases : a \in DOMAIN p /\ IsSet(p[a])
             THEN p[CHOOSE a \in spec[k].aliases : a \in DOMAIN p /\ IsSet(p[a])]
             ELSE None]

\* groups of mutually exclusive options of which more than one is supplied
CheckMutuallyExclusive(groups, q) ==
    {g \in groups : Cardinality({k \in g : IsSet(q[k])}) > 1}

\* required options that are not supplied
CheckRequiredArguments(spec, q) ==
    {k \in Options(spec) : spec[k].required /\ ~IsSet(q[k])}

\* supplied options whose value is not one of the option's choices
CheckArgumentValues(spec, q) ==
    {k \in Options(spec) :
        /\ IsSet(q[k])
        /\ spec[k].choices # {}
        /\ Val(q[k]) \notin spec[k].choices}

\* type conversion of one value
CheckType(type, v) ==
    CASE type = "int"  -> ToInt(v)
      [] type = "bool" -> ToBool(v)
      [] OTHER         -> v

\* defaults for what is not supplied, then the type conversions
SetDefaults(spec, q) ==
    [k \in Options(spec) |->
        LET o == IF IsSet(q[k]) THEN q[k] ELSE spec[k].default
        IN  IF IsSet(o) THEN Some(CheckType(spec[k].type, Val(o))) ELSE None]

\* module.params of a specification and a task's parameters
ModuleParams(spec, p) == SetDefaults(spec, HandleAliases(spec, p))

\* the fields a failed validation may name: the groups in conflict, else all
\* missing required options, else one option with a value outside its choices
ValidationErrors(spec, mutex, p) ==
    LET q == HandleAliases(spec, p)
    IN  IF CheckMutuallyExclusive(mutex, q) # {}
        THEN CheckMutuallyExclusive(mutex, q)
        ELSE IF CheckRequiredArguments(spec, q) # {}
        THEN {CheckRequiredArguments(spec, q)}
        ELSE {{k} : k \in CheckArgumentValues(spec, q)}

\* variant: the password is blanked in the report
ExitJsonMasked(c, m) ==
    [failed |-> FALSE, changed |-> c, fields |-> {},
     meta |-> Some([m EXCEPT !["url_password"] = Some("********")])]

\* outcomes
FailJson(fields) == [failed |-> TRUE, changed |-> FALSE, fields |-> fields, meta |-> None]
ExitJson(c, m) == [failed |-> FALSE, changed |-> c, fields |-> {}, meta |-> Some(m)]

----------------------------------------------------------------------------
(* State machine *)

Init ==
    /\ pc = "idle"
    /\ raw = Unsupplied
    /\ changed = FALSE
    /\ failed = FALSE
    /\ argument_spec = <<>>
    /\ params = <<>>
    /\ out = <<>>
    /\ httpCalls = 0
    /\ answer = 200
    /\ run = 0
    /\ repeated = FALSE

\* the automation engine runs the module for a task: main() starts and sets
\* its locals
Invoke(p, a) ==
    /\ pc = "idle"
    /\ run < MaxRuns
    /\ pc' = "main"
    /\ raw' = p
    /\ answer' = a
    /\ changed' = FALSE
    /\ failed' = FALSE
    /\ argument_spec' = <<>>
    /\ params' = <<>>
    /\ out' = <<>>
    /\ httpCalls' = 0
    /\ run' = run + 1
    /\ repeated' = FALSE

\* main() builds argument_spec
BuildSpec ==
    /\ pc = "main"
    /\ argument_spec' = BuiltArgumentSpec
    /\ pc' = "spec"
    /\ UNCHANGED <<raw, changed, failed, params, out, httpCalls, answer, run, repeated>>

\* module = AnsibleModule(argument_spec=argument_spec), validation fails
ConstructFail ==
    /\ pc = "spec"
    /\ \E f \in ValidationErrors(argument_spec, MutuallyExclusiveArg, raw) :
          out' = Append(out, FailJson(f))
    /\ pc' = "exited"
    /\ UNCHANGED <<raw, changed, failed, argument_spec, params, httpCalls, answer, run, repeated>>

\* module = AnsibleModule(argument_spec=argument_spec), validation passes
ConstructOk ==
    /\ pc = "spec"
    /\ ValidationErrors(argument_spec, MutuallyExclusiveArg, raw) = {}
    /\ params' = ModuleParams(argument_spec, raw)
    /\ pc' = "validated"
    /\ UNCHANGED <<raw, changed, failed, argument_spec, out, httpCalls, answer, run, repeated>>

\* variant: main returns without reporting
ExitSilent ==
    /\ pc = "validated"
    /\ pc' = "exited"
    /\ UNCHANGED <<raw, changed, failed, argument_spec, params, out, httpCalls, answer, run, repeated>>

\* module.exit_json(changed=False, meta=module.params)
Exit ==
    /\ pc = "validated"
    /\ out' = Append(out, ExitJson(ExitChanged, params))
    /\ pc' = "exited"
    /\ UNCHANGED <<raw, changed, failed, argument_spec, params, httpCalls, answer, run, repeated>>

\* the engine runs the same task once more
Repeat(a) ==
    /\ pc = "exited"
    /\ run < MaxRuns
    /\ pc' = "main"
    /\ answer' = a
    /\ changed' = FALSE
    /\ failed' = FALSE
    /\ argument_spec' = <<>>
    /\ params' = <<>>
    /\ out' = <<>>
    /\ httpCalls' = 0
    /\ run' = run + 1
    /\ repeated' = TRUE
    /\ UNCHANGED raw

Next ==
    \/ pc = "idle" /\ \E p \in ParamSets, a \in Statuses : Invoke(p, a)
    \/ BuildSpec
    \/ ConstructFail
    \/ ConstructOk
    \/ Exit
    \/ pc = "exited" /\ \E a \in Statuses : Repeat(a)

Spec == Init /\ [][Next]_vars

\* main() is sequential code: a started invocation runs on to its exit
FairSpec ==
    /\ Spec
    /\ WF_vars(BuildSpec)
    /\ WF_vars(ConstructFail)
    /\ WF_vars(ConstructOk)
    /\ WF_vars(Exit)

TypeOK ==
    /\ pc \in {"idle", "main", "spec", "validated", "exited"}
    /\ run \in 0..MaxRuns
    /\ httpCalls \in Nat
    /\ Len(out) <= 1

----------------------------------------------------------------------------
(* Properties *)

Exited == pc = "exited" /\ Len(out) = 1
Outcome == out[1]

Given(k) == IsSet(raw[k])
Is(k, v) == raw[k] = Some(v)

\* the task's parameters form a valid parameter set: the required fields are
\* there, enumerated fields hold one of their values, objects name a family,
\* cascade_delete does not come with a definition
NonEmptyDefinition == Given("definition") /\ Val(raw.definition) # EmptyDict
FieldsValid ==
    /\ Given("url")
    /\ Is("endpoint", "objects") \/ Is("endpoint", "status")
    /\ ~Given("state") \/ Is("state", "present") \/ Is("state", "absent")
    /\ ~Given("object_family") \/ Val(raw.object_family) \in Families
    /\ Is("endpoint", "objects") => Given("object_family")
WellFormed ==
    /\ FieldsValid
    /\ ~(Is("cascade_delete", "true") /\ NonEmptyDefinition)

\* C1: an invocation with cascade_delete true and a non-empty definition, all
\* other fields valid, ends in a failed outcome
C1_MutualExclusion ==
    (Exited /\ FieldsValid /\ Is("cascade_delete", "true") /\ NonEmptyDefinition)
    => Outcome.failed

\* C2: with endpoint=objects, an invocation without object_family, or with an
\* object_family outside the five families, ends in a failed outcome
C2_ObjectFamilyRequired ==
    (/\ Exited
     /\ Is("endpoint", "objects")
     /\ ~Given("object_family") \/ Val(raw.object_family) \notin Families)
    => Outcome.failed

\* the fields of the task's parameters that break a rule of the specification
C3_Missing == {k \in {"url", "endpoint"} : ~Given(k)}
C3_OutOfChoices ==
    {k \in {"endpoint"} : Given(k) /\ Val(raw[k]) \notin {"objects", "status"}}
    \cup {k \in {"state"} : Given(k) /\ Val(raw[k]) \notin {"present", "absent"}}
    \cup {k \in {"object_family"} : Given(k) /\ Val(raw[k]) \notin Families}
C3_Case ==
    \/ C3_Missing # {}
    \/ C3_OutOfChoices \cap {"endpoint", "state"} # {}

\* C3: an invocation that misses url or endpoint, or whose endpoint or state is
\* outside its choices, issues no HTTP request at any point and ends in a
\* failed outcome that names offending fields only, and at least one
C3_ValidationAbortsBeforeNetwork ==
    (pc # "idle" /\ C3_Case) =>
        /\ httpCalls = 0
        /\ pc # "validated"
        /\ Exited =>
            /\ Outcome.failed
            /\ Outcome.fields # {}
            /\ Outcome.fields \subseteq C3_Missing \cup C3_OutOfChoices

\* scenario D: endpoint is missing, the failure names endpoint
C3_Witness ==
    /\ Exited
    /\ Given("url") /\ ~Given("endpoint")
    /\ Outcome.failed /\ Outcome.fields = {"endpoint"}
    /\ httpCalls = 0

\* C4: an invocation with valid parameters has issued exactly one HTTP
\* request when it reports
C4_ExactlyOneRequest ==
    (Exited /\ WellFormed /\ ~Outcome.failed) => httpCalls = 1

\* the validated request is a mutating call on an object
C5_Mutating ==
    /\ params.endpoint = Some("objects")
    /\ \/ params.state = Some("absent")
       \/ params.state = Some("present") /\ params.definition # Some(EmptyDict)

\* C5: a valid mutating invocation on an object which the API answers with
\* 200 reports changed=true, failed=false
C5_MutationReportsChanged ==
    (Exited /\ WellFormed /\ ~Outcome.failed /\ C5_Mutating /\ answer = 200)
    => (Outcome.changed /\ ~Outcome.failed)

C9_OnlyUrlAndStatus ==
    /\ Given("url") /\ Is("endpoint", "status")
    /\ \A k \in RawNames \ {"url", "endpoint"} : ~Given(k)

\* validation has passed
C9_Validated == pc = "validated" \/ (Exited /\ ~Outcome.failed)

\* C9: with only url and endpoint=status supplied validation passes and gives
\* the defaults; a supplied value is kept in place of the default
C9_Defaults ==
    /\ (C9_OnlyUrlAndStatus /\ pc \in {"validated", "exited"}) =>
        /\ C9_Validated
        /\ params.state = Some("present")
        /\ params.port = Some(5665)
        /\ params.url_username = Some("root")
        /\ params.url_password = Some("icinga")
        /\ params.headers = Some(EmptyDict)
        /\ params.cascade_delete = Some(FALSE)
        /\ params.definition = Some(EmptyDict)
    /\ C9_Validated =>
        /\ Given("state") => params.state = raw.state
        /\ Is("port", Str443) => params.port = Some(443)
        /\ Given("user") => params.url_username = raw.user
        /\ Given("password") => params.url_password = raw.password
        /\ Given("headers") => params.headers = raw.headers
        /\ Is("cascade_delete", "true") => params.cascade_delete = Some(TRUE)
        /\ Is("cascade_delete", "false") => params.cascade_delete = Some(FALSE)
        /\ Given("definition") => params.definition = raw.definition

\* the defaults of the smallest valid parameter set are in module.params
C9_Witness ==
    /\ pc = "validated"
    /\ C9_OnlyUrlAndStatus
    /\ params.port = Some(5665) /\ params.state = Some("present")

\* C10: a started invocation reaches its exit, has emitted exactly one
\* outcome there and never more than one before
C10_SingleOutcome ==
    /\ [](Len(out) <= 1)
    /\ [](pc = "exited" => Len(out) = 1)
    /\ (pc = "main") ~> (pc = "exited")

\* the second run of a task has ended with its single report
C10_Witness ==
    /\ Exited /\ ~Outcome.failed /\ run = 2 /\ Len(out) = 1

====
